---- MODULE Spec2Model ----
(***************************************************************************)
(* Boot-device identification and cache of libkernelflinger/storage.c.     *)
(*                                                                         *)
(* The program state is the four file-scope statics of storage.c           *)
(* (cur_storage, boot_device, boot_device_type, initialized).  Every       *)
(* exported function is one action; its body is an operator from the       *)
(* cache before the call and the call's inputs to the cache after the call *)
(* and the returned status.  What the firmware returns (the handle buffer  *)
(* of LocateHandleBuffer, the status of a descriptor's callback) is an     *)
(* input of the call.                                                      *)
(*                                                                         *)
(* The pattern-fill writer (fill_with, fill_zero) is a loop around a       *)
(* blocking device call; it advances one loop iteration, that is one       *)
(* WriteBlocks call, per step, with LBA arithmetic in a fixed width.       *)
(***************************************************************************)
EXTENDS Integers, Sequences, FiniteSets, TLC

VARIABLES
    cur_storage,        \* static struct storage *cur_storage
    boot_device,        \* static PCI_DEVICE_PATH boot_device
    boot_device_type,   \* static enum storage_type boot_device_type
    initialized,        \* static BOOLEAN initialized
    last,               \* the last call: operation, arguments, result, what it invoked
    scanned,            \* the handle buffer of the scan under study (ScanSpec only)
    lazy_done,          \* a lazy scan (from valid_storage or get_boot_device) has run
    succeeded,          \* some identify_boot_device or storage_set_boot_device succeeded
    fill,               \* the fill_with / fill_zero call in progress: arguments, locals,
                        \* the block writes issued, the pattern buffer, the status
    lookup              \* the identify_storage call under study: arguments, outputs

vars == <<cur_storage, boot_device, boot_device_type, initialized,
          last, scanned, lazy_done, succeeded, fill, lookup>>

-----------------------------------------------------------------------------
(* Bounds *)

\* Longest handle buffer LocateHandleBuffer returns to a call.
MaxHandles == 2

\* Width in bits of EFI_LBA, UINT64 and UINTN in the model: fill_with computes
\* modulo 2^LbaBits what the 64-bit build computes modulo 2^64.
LbaBits == 3

\* Blocks of the zero pattern fill_zero allocates, scaled to the width above.
N_BLOCK == 2

-----------------------------------------------------------------------------
(* enum storage_type, in the order of supported_storage[] *)

STORAGE_EMMC == 0
STORAGE_UFS == 1
STORAGE_SDCARD == 2
STORAGE_SATA == 3
STORAGE_ALL == 4

StorageTypes == STORAGE_EMMC .. (STORAGE_ALL - 1)
Filters == STORAGE_EMMC .. STORAGE_ALL

\* The filters the call sequences pass to identify_boot_device: one type whose
\* descriptor is the first to accept a path, one whose descriptor is not, and all.
CallFilters == {STORAGE_EMMC, STORAGE_SATA, STORAGE_ALL}

\* struct storage pointers are modelled by the descriptor's name; NULL is "NULL".
NULL == "NULL"

\* static struct storage *supported_storage[STORAGE_ALL]; entry st is at st + 1.
supported_storage == <<"emmc", "ufs", "sdcard", "sata">>

\* Device-path node type of a PCI node (UEFI: HARDWARE_DEVICE_PATH); never 0.
HARDWARE_DEVICE_PATH == 1

\* EFI statuses that are errors.
EFI_ERROR(ret) == ret # "EFI_SUCCESS"

-----------------------------------------------------------------------------
(* Devices of the platform.                                                *)
(* A handle is described by what the code reads of it: whether it has a    *)
(* device path, whether that path holds a PCI node, the Function and       *)
(* Device of that node, and the storage types whose probe() accepts the    *)
(* path.                                                                   *)

\* <<Function, Device>> of the PCI controllers the call sequences run over.  They
\* share the Function, so that equality on one field differs from equality on both.
PciAddresses == {<<0, 1>>, <<0, 2>>}

\* The controllers of the single-scan study: a third one, which shares its Device
\* with the second.
StudyAddresses == PciAddresses \cup {<<1, 2>>}

\* The probe outcomes of the platform's device paths: no probe accepts, only eMMC
\* accepts, UFS and SATA both accept.
ProbeSets == {{}, {STORAGE_EMMC}, {STORAGE_UFS, STORAGE_SATA}}

NoPathHandle == [path |-> FALSE, pci |-> FALSE, Function |-> 0, Device |-> 0, probes |-> {}]
NotPciHandle == [path |-> TRUE, pci |-> FALSE, Function |-> 0, Device |-> 0, probes |-> {}]
PciHandle(a, ps) ==
    [path |-> TRUE, pci |-> TRUE, Function |-> a[1], Device |-> a[2], probes |-> ps]
Handles ==
    {NoPathHandle, NotPciHandle} \cup {PciHandle(a, ps) : a \in PciAddresses, ps \in ProbeSets}

\* The handles of the single-scan study: also paths that only UFS or only SD card
\* accepts.
StudyProbeSets == ProbeSets \cup {{STORAGE_UFS}, {STORAGE_SDCARD}}
StudyHandles ==
    {NoPathHandle, NotPciHandle}
        \cup {PciHandle(a, ps) : a \in StudyAddresses, ps \in StudyProbeSets}

\* The device paths handed to storage_check_logical_unit, which reads only their
\* PCI node.
DevicePaths == {NotPciHandle} \cup {PciHandle(a, {}) : a \in PciAddresses}

SeqsUpTo(S, n) == UNION {[1..k -> S] : k \in 0..n}

\* What LocateHandleBuffer(ByProtocol, BlockIo) gives a call: an error, or a buffer.
LocateFailure == [ret |-> "EFI_NOT_FOUND", handles |-> <<>>]
LocateOk(hs) == [ret |-> "EFI_SUCCESS", handles |-> hs]
LocateResults == {LocateFailure} \cup {LocateOk(hs) : hs \in SeqsUpTo(Handles, MaxHandles)}

\* Statuses a descriptor's check_logical_unit / erase_blocks may return.
DescriptorStatus == {"EFI_SUCCESS", "EFI_DEVICE_ERROR"}

LogicalUnits == {"LOGICAL_UNIT_USER", "LOGICAL_UNIT_FACTORY"}

\* <<start, end>> of the erase requests.
EraseRanges == {<<0, 7>>, <<8, 8>>}

\* The EFI_BLOCK_IO interfaces a caller may pass.
BlockIos == {"bio0", "bio1"}

-----------------------------------------------------------------------------
(* External collaborators, as the code uses them *)

\* DevicePathFromHandle(h) != NULL
DevicePathFromHandle(h) == h.path

\* A PCI_DEVICE_PATH value; Type = 0 stands for the NULL pointer / "no address".
PciNode(type, function, device) == [Type |-> type, Function |-> function, Device |-> device]
NullPci == PciNode(0, 0, 0)

\* get_pci_device_path(p): the PCI node of the path, or NULL.
get_pci_device_path(h) ==
    IF h.path /\ h.pci THEN PciNode(HARDWARE_DEVICE_PATH, h.Function, h.Device)
    ELSE NullPci

\* supported_storage[st]->probe(device_path)
probe(st, h) == st \in h.probes

-----------------------------------------------------------------------------
(* The cache *)

Cache(cs, bd, bdt, ini) ==
    [cur_storage |-> cs, boot_device |-> bd, boot_device_type |-> bdt, initialized |-> ini]

\* The statics as initialised at load time: boot_device = { .Function = -1, .Device = -1 }
\* in UINT8 fields, everything else zero.
InitialCache == Cache(NULL, PciNode(0, 255, 255), STORAGE_EMMC, FALSE)

CurrentCache == Cache(cur_storage, boot_device, boot_device_type, initialized)

-----------------------------------------------------------------------------
(* is_boot_device (storage.c:43-54) *)

\* is_boot_device comparing the Function alone.
is_boot_device_function_only(c, p) ==
    IF c.boot_device.Type = 0 THEN FALSE
    ELSE LET pci == get_pci_device_path(p)
         IN  /\ pci # NullPci
             /\ pci.Function = c.boot_device.Function

is_boot_device(c, p) ==
    IF c.boot_device.Type = 0 THEN FALSE
    ELSE LET pci == get_pci_device_path(p)
         IN  /\ pci # NullPci
             /\ pci.Function = c.boot_device.Function
             /\ pci.Device = c.boot_device.Device

-----------------------------------------------------------------------------
(* identify_storage (storage.c:61-85) *)
(* storage and type are the values behind the two output pointers before   *)
(* the call; they are written on success only.                             *)

RECURSIVE identify_storage_from(_, _, _, _, _)
identify_storage_from(st, device_path, filter, storage, type) ==
    IF ~(st < STORAGE_ALL)
    THEN [ret |-> "EFI_UNSUPPORTED", storage |-> storage, type |-> type]
    ELSE IF /\ (filter = st \/ filter = STORAGE_ALL)
            /\ supported_storage[st + 1] # NULL
            /\ probe(st, device_path)
         THEN [ret |-> "EFI_SUCCESS", storage |-> supported_storage[st + 1], type |-> st]
         ELSE identify_storage_from(st + 1, device_path, filter, storage, type)

\* identify_storage clearing its outputs when nothing is found.
identify_storage_clears_outputs(device_path, filter, storage, type) ==
    identify_storage_from(STORAGE_EMMC, device_path, filter, NULL, STORAGE_EMMC)

\* identify_storage taking every filter for STORAGE_ALL.
identify_storage_any_type(device_path, filter, storage, type) ==
    identify_storage_from(STORAGE_EMMC, device_path, STORAGE_ALL, storage, type)

identify_storage(device_path, filter, storage, type) ==
    identify_storage_from(STORAGE_EMMC, device_path, filter, storage, type)

-----------------------------------------------------------------------------
(* identify_boot_device (storage.c:87-149) *)

\* replaces with the priority override lost: only the first recognised device is
\* accepted.
replaces_first_only(c, type) == c.boot_device.Type = 0

\* Line 124: the device just recognised as type becomes the candidate.
replaces(c, type) == ~(c.boot_device.Type # 0) \/ c.boot_device_type > type

\* ambiguity with the clearing of lines 133-134 lost.
ambiguity_keeps_candidate(c) ==
    [cache |-> c, ret |-> "EFI_UNSUPPORTED", log |-> "Multiple identifcal storage found"]

\* Lines 131-137: a second device of the candidate's type ends the scan.
ambiguity(c) ==
    [cache |-> [c EXCEPT !.cur_storage = NULL, !.boot_device.Type = 0],
     ret |-> "EFI_UNSUPPORTED",
     log |-> "Multiple identifcal storage found"]

\* The for loop of lines 107-138 from handles[i] on (i counts from 1), then lines
\* 140-148.  c is the cache as the loop has left it so far; log is the message the
\* call ends with.
RECURSIVE scan_handles(_, _, _, _)
scan_handles(handles, i, filter, c) ==
    IF i > Len(handles)
    THEN IF c.cur_storage = NULL
         THEN [cache |-> c, ret |-> "EFI_UNSUPPORTED", log |-> "No PCI storage found"]
         ELSE [cache |-> c, ret |-> "EFI_SUCCESS", log |-> "storage selected"]
    ELSE
    LET h == handles[i]
        pci == get_pci_device_path(h)
        found == identify_storage(h, filter, NULL, STORAGE_EMMC)
    IN  IF ~DevicePathFromHandle(h) THEN scan_handles(handles, i + 1, filter, c)
        ELSE IF pci = NullPci THEN scan_handles(handles, i + 1, filter, c)
        ELSE IF /\ c.boot_device.Function = pci.Function
                /\ c.boot_device.Device = pci.Device
             THEN scan_handles(handles, i + 1, filter, c)
        ELSE IF EFI_ERROR(found.ret) THEN scan_handles(handles, i + 1, filter, c)
        ELSE IF replaces(c, found.type)
             THEN scan_handles(handles, i + 1, filter,
                               [c EXCEPT !.boot_device = pci,
                                         !.boot_device_type = found.type,
                                         !.cur_storage = found.storage])
        ELSE IF c.boot_device_type = found.type
             THEN ambiguity(c)
        ELSE scan_handles(handles, i + 1, filter, c)

\* identify_boot_device asking for a new lazy scan after a scan that failed.
identify_boot_device_retries(filter, c, loc) ==
    LET c0 == [c EXCEPT !.cur_storage = NULL]
        r == IF EFI_ERROR(loc.ret)
             THEN [cache |-> c0, ret |-> loc.ret,
                   log |-> "Failed to locate Block IO Protocol"]
             ELSE scan_handles(loc.handles, 1, filter, [c0 EXCEPT !.boot_device.Type = 0])
    IN  IF EFI_ERROR(r.ret) THEN [r EXCEPT !.cache.initialized = FALSE] ELSE r

\* loc is what LocateHandleBuffer returns to this call.
identify_boot_device(filter, c, loc) ==
    LET c0 == [c EXCEPT !.cur_storage = NULL]
    IN  IF EFI_ERROR(loc.ret)
        THEN [cache |-> c0, ret |-> loc.ret, log |-> "Failed to locate Block IO Protocol"]
        ELSE scan_handles(loc.handles, 1, filter, [c0 EXCEPT !.boot_device.Type = 0])

-----------------------------------------------------------------------------
(* valid_storage (storage.c:151-158) *)

\* scan: whether the call ran identify_boot_device.
valid_storage(c, loc) ==
    IF ~c.initialized
    THEN LET r == identify_boot_device(STORAGE_ALL, [c EXCEPT !.initialized = TRUE], loc)
         IN  [cache |-> r.cache, valid |-> ~EFI_ERROR(r.ret), scan |-> TRUE]
    ELSE [cache |-> c,
          valid |-> (c.boot_device.Type # 0 /\ c.cur_storage # NULL),
          scan |-> FALSE]

-----------------------------------------------------------------------------
(* storage_check_logical_unit (storage.c:160-168) *)

\* called: the descriptor whose check_logical_unit was invoked (NULL: none), with
\* the arguments cdev, cunit it was given and the status cret it returned; dstatus
\* is the status the descriptor returns if it is invoked.
storage_check_logical_unit(c, p, log_unit, loc, dstatus) ==
    LET v == valid_storage(c, loc)
        none == [cache |-> v.cache, ret |-> "EFI_UNSUPPORTED", scan |-> v.scan,
                 valid |-> v.valid, called |-> NULL, cdev |-> NoPathHandle,
                 cunit |-> "LOGICAL_UNIT_USER", cret |-> "EFI_SUCCESS"]
    IN  IF ~v.valid THEN none
        ELSE IF ~is_boot_device(v.cache, p) THEN none
        ELSE [none EXCEPT !.ret = dstatus, !.called = v.cache.cur_storage,
                          !.cdev = p, !.cunit = log_unit, !.cret = dstatus]

-----------------------------------------------------------------------------
(* storage_erase_blocks (storage.c:170-177) *)

\* storage_erase_blocks erasing from block 0 up to end.
storage_erase_blocks_from_zero(c, handle, bio, start, end, loc, dstatus) ==
    LET v == valid_storage(c, loc)
        none == [cache |-> v.cache, ret |-> "EFI_UNSUPPORTED", scan |-> v.scan,
                 valid |-> v.valid, called |-> NULL, chandle |-> NoPathHandle,
                 cbio |-> NULL, crange |-> <<0, 0>>, cret |-> "EFI_SUCCESS"]
    IN  IF ~v.valid THEN none
        ELSE [none EXCEPT !.ret = dstatus, !.called = v.cache.cur_storage,
                          !.chandle = handle, !.cbio = bio,
                          !.crange = <<0, end>>, !.cret = dstatus]

\* called is the descriptor whose erase_blocks was invoked, with the arguments
\* chandle, cbio and crange it was given and the status cret it returned.
storage_erase_blocks(c, handle, bio, start, end, loc, dstatus) ==
    LET v == valid_storage(c, loc)
        none == [cache |-> v.cache, ret |-> "EFI_UNSUPPORTED", scan |-> v.scan,
                 valid |-> v.valid, called |-> NULL, chandle |-> NoPathHandle,
                 cbio |-> NULL, crange |-> <<0, 0>>, cret |-> "EFI_SUCCESS"]
    IN  IF ~v.valid THEN none
        ELSE [none EXCEPT !.ret = dstatus, !.called = v.cache.cur_storage,
                          !.chandle = handle, !.cbio = bio,
                          !.crange = <<start, end>>, !.cret = dstatus]

-----------------------------------------------------------------------------
(* storage_set_boot_device (storage.c:233-264) *)

\* storage_set_boot_device without line 261 (initialized = TRUE).
storage_set_boot_device_uninitialized(c, device) ==
    LET pci == get_pci_device_path(device)
        found == identify_storage(device, STORAGE_ALL, c.cur_storage, c.boot_device_type)
    IN  IF ~DevicePathFromHandle(device) THEN [cache |-> c, ret |-> "EFI_UNSUPPORTED"]
        ELSE IF pci = NullPci THEN [cache |-> c, ret |-> "EFI_UNSUPPORTED"]
        ELSE IF EFI_ERROR(found.ret)
             THEN [cache |-> [c EXCEPT !.cur_storage = found.storage,
                                       !.boot_device_type = found.type],
                   ret |-> found.ret]
        ELSE [cache |-> [c EXCEPT !.cur_storage = found.storage,
                                  !.boot_device_type = found.type,
                                  !.boot_device = pci],
              ret |-> "EFI_SUCCESS"]

storage_set_boot_device(c, device) ==
    LET pci == get_pci_device_path(device)
        found == identify_storage(device, STORAGE_ALL, c.cur_storage, c.boot_device_type)
    IN  IF ~DevicePathFromHandle(device) THEN [cache |-> c, ret |-> "EFI_UNSUPPORTED"]
        ELSE IF pci = NullPci THEN [cache |-> c, ret |-> "EFI_UNSUPPORTED"]
        ELSE IF EFI_ERROR(found.ret)
             THEN [cache |-> [c EXCEPT !.cur_storage = found.storage,
                                       !.boot_device_type = found.type],
                   ret |-> found.ret]
        ELSE [cache |-> [c EXCEPT !.cur_storage = found.storage,
                                  !.boot_device_type = found.type,
                                  !.initialized = TRUE,
                                  !.boot_device = pci],
              ret |-> "EFI_SUCCESS"]

-----------------------------------------------------------------------------
(* get_boot_device (storage.c:266-276) *)

\* ret: "NULL", or "&boot_device" for the pointer to the cached address.
get_boot_device(c, loc) ==
    LET r == IF ~c.initialized
             THEN [cache |-> identify_boot_device(STORAGE_ALL, c, loc).cache, scan |-> TRUE]
             ELSE [cache |-> c, scan |-> FALSE]
    IN  [cache |-> r.cache, scan |-> r.scan,
         ret |-> IF r.cache.boot_device.Type = 0 THEN "NULL" ELSE "&boot_device"]

-----------------------------------------------------------------------------
(* fill_with (storage.c:181-212) and fill_zero (storage.c:214-231) *)

LbaSpace == 2 ^ LbaBits
MaxLba == LbaSpace - 1
Lbas == 0 .. MaxLba

\* Unsigned arithmetic of the width of EFI_LBA.
wrap(x) == x % LbaSpace

\* What WriteBlocks and alloc_aligned may return.
WriteStatus == {"EFI_SUCCESS", "EFI_DEVICE_ERROR"}
AllocStatus == {"EFI_SUCCESS", "EFI_OUT_OF_RESOURCES"}

\* The block writes of a call are kept in the order they are issued, up to MaxLog
\* of them; a write issued after that sets dropped and is not kept.
MaxLog == LbaSpace

\*   pc         "idle" before the call, "fill_with" inside the loop of fill_with,
\*              "returned" when fill_with has returned to fill_zero, "done" after
\*              the called function has returned
\*   fn         the function called: fill_with or fill_zero
\*   lba        the loop variable of fill_with
\*   writes     the WriteBlocks calls issued: first block and number of blocks
\*   with_ret   the status fill_with returned
\*   ret        the status the called function returned
\*   allocated  successful alloc_aligned calls, freed  FreePool calls
NoFill ==
    [pc |-> "idle", fn |-> "none", start |-> 0, end |-> 0, pattern_blocks |-> 0,
     lba |-> 0, writes |-> <<>>, dropped |-> FALSE, with_ret |-> "", ret |-> "",
     allocated |-> 0, freed |-> 0]

WriteBlocks(f, lba, size) ==
    IF Len(f.writes) < MaxLog
    THEN [f EXCEPT !.writes = Append(@, [lba |-> lba, size |-> size])]
    ELSE [f EXCEPT !.dropped = TRUE]

\* fill_with rejecting only end < start.
fill_with_accepts_single_block(f, start, end, pattern_blocks) ==
    LET g == [f EXCEPT !.start = start, !.end = end, !.pattern_blocks = pattern_blocks]
    IN  IF end < start
        THEN [g EXCEPT !.pc = "returned", !.with_ret = "EFI_INVALID_PARAMETER"]
        ELSE [g EXCEPT !.pc = "fill_with", !.lba = start]

\* Lines 181-193: the range check and the initialisation of the loop.
fill_with(f, start, end, pattern_blocks) ==
    LET g == [f EXCEPT !.start = start, !.end = end, !.pattern_blocks = pattern_blocks]
    IN  IF end <= start
        THEN [g EXCEPT !.pc = "returned", !.with_ret = "EFI_INVALID_PARAMETER"]
        ELSE [g EXCEPT !.pc = "fill_with", !.lba = start]

\* Lines 193-211: the loop test and one iteration, whose WriteBlocks returns
\* wstatus.  prev and progress only feed debug output.
fill_with_iteration(f, wstatus) ==
    IF ~(f.lba <= f.end)
    THEN [f EXCEPT !.pc = "returned", !.with_ret = "EFI_SUCCESS"]
    ELSE LET size == IF wrap(f.lba + f.pattern_blocks) > wrap(f.end + 1)
                     THEN wrap(f.end - f.lba + 1)
                     ELSE f.pattern_blocks
             g == WriteBlocks(f, f.lba, size)
         IN  IF EFI_ERROR(wstatus)
             THEN [g EXCEPT !.pc = "returned", !.with_ret = wstatus]
             ELSE [g EXCEPT !.lba = wrap(f.lba + f.pattern_blocks)]

\* fill_zero freeing the buffer only when fill_with succeeded.
fill_zero_resume_leaks(f) ==
    [f EXCEPT !.pc = "done", !.ret = f.with_ret,
              !.freed = IF EFI_ERROR(f.with_ret) THEN @ ELSE @ + 1]

\* Lines 227-230: fill_zero after fill_with has returned.
fill_zero_resume(f) ==
    [f EXCEPT !.pc = "done", !.ret = f.with_ret, !.freed = @ + 1]

\* The return of fill_with to its caller.
fill_with_return(f) ==
    IF f.pc # "returned" THEN f
    ELSE IF f.fn = "fill_zero" THEN fill_zero_resume(f)
    ELSE [f EXCEPT !.pc = "done", !.ret = f.with_ret]

\* Lines 214-225: the allocation, whose status is astatus, and the call of fill_with.
fill_zero(f, start, end, astatus) ==
    IF EFI_ERROR(astatus)
    THEN [f EXCEPT !.start = start, !.end = end, !.pc = "done", !.ret = astatus]
    ELSE fill_with([f EXCEPT !.allocated = @ + 1], start, end, N_BLOCK)

\* The identify_storage call under study, before it is made.
NoLookup ==
    [done |-> FALSE, probes |-> {}, filter |-> STORAGE_ALL,
     storage_in |-> NULL, type_in |-> STORAGE_EMMC,
     ret |-> "EFI_SUCCESS", storage |-> NULL, type |-> STORAGE_EMMC]

-----------------------------------------------------------------------------
(* The state machine: one action per exported function *)

\* The record of a call, before its fields are filled in.
\*   filter  the filter of an identify_boot_device call over a chosen handle
\*           buffer (Rescan)
\*   scan    the call ran identify_boot_device (one LocateHandleBuffer enumeration)
\*   valid   what valid_storage answered (check_logical_unit, erase_blocks)
\*   log     the message identify_boot_device ended with
\*   called  the descriptor whose callback was invoked, with its arguments cdev,
\*           cunit, cbio, crange and the status cret it returned
\*   chain   the call is a successful identify_boot_device, or a get_boot_device
\*           that follows one with only get_boot_device calls in between
\*   pinned  the call is a successful storage_set_boot_device, or a get_boot_device,
\*           check_logical_unit or erase_blocks that follows one with only such
\*           calls in between
NoCall ==
    [op |-> "none", dev |-> NoPathHandle, unit |-> "LOGICAL_UNIT_USER", range |-> <<0, 0>>,
     bio |-> NULL, filter |-> STORAGE_ALL, ret |-> "EFI_SUCCESS", scan |-> FALSE,
     valid |-> FALSE,
     called |-> NULL, cdev |-> NoPathHandle, cunit |-> "LOGICAL_UNIT_USER",
     cbio |-> NULL, crange |-> <<0, 0>>, cret |-> "EFI_SUCCESS", log |-> "",
     chain |-> FALSE, pinned |-> FALSE]

Commit(c) ==
    /\ cur_storage' = c.cur_storage
    /\ boot_device' = c.boot_device
    /\ boot_device_type' = c.boot_device_type
    /\ initialized' = c.initialized

\* The enumeration a call may need: a call that finds the cache initialized does
\* not reach LocateHandleBuffer.
LazyLocate == IF initialized THEN {LocateFailure} ELSE LocateResults

Init ==
    /\ cur_storage = InitialCache.cur_storage
    /\ boot_device = InitialCache.boot_device
    /\ boot_device_type = InitialCache.boot_device_type
    /\ initialized = InitialCache.initialized
    /\ last = NoCall
    /\ scanned = <<>>
    /\ lazy_done = FALSE
    /\ succeeded = FALSE
    /\ fill = NoFill
    /\ lookup = NoLookup

IdentifyBootDevice ==
    \E filter \in CallFilters, loc \in LocateResults :
        \E r \in {identify_boot_device(filter, CurrentCache, loc)} :
            /\ Commit(r.cache)
            /\ last' = [NoCall EXCEPT !.op = "identify_boot_device", !.ret = r.ret,
                                      !.scan = TRUE, !.log = r.log,
                                      !.chain = ~EFI_ERROR(r.ret)]
            /\ succeeded' = (succeeded \/ ~EFI_ERROR(r.ret))
            /\ UNCHANGED <<scanned, lazy_done>>
            /\ UNCHANGED <<fill, lookup>>

SetBootDevice ==
    \E device \in Handles :
        \E r \in {storage_set_boot_device(CurrentCache, device)} :
            /\ Commit(r.cache)
            /\ last' = [NoCall EXCEPT !.op = "storage_set_boot_device", !.dev = device,
                                      !.ret = r.ret, !.pinned = ~EFI_ERROR(r.ret)]
            /\ succeeded' = (succeeded \/ ~EFI_ERROR(r.ret))
            /\ UNCHANGED <<scanned, lazy_done>>
            /\ UNCHANGED <<fill, lookup>>

GetBootDevice ==
    \E loc \in LazyLocate :
        \E r \in {get_boot_device(CurrentCache, loc)} :
            /\ Commit(r.cache)
            /\ last' = [NoCall EXCEPT !.op = "get_boot_device", !.ret = r.ret,
                                      !.scan = r.scan, !.chain = last.chain,
                                      !.pinned = last.pinned]
            /\ lazy_done' = (lazy_done \/ r.scan)
            /\ succeeded' = (succeeded \/ (r.scan /\ r.cache.cur_storage # NULL))
            /\ UNCHANGED scanned
            /\ UNCHANGED <<fill, lookup>>

CheckLogicalUnit ==
    \E p \in DevicePaths, log_unit \in LogicalUnits,
       loc \in LazyLocate, dstatus \in DescriptorStatus :
        \E r \in {storage_check_logical_unit(CurrentCache, p, log_unit, loc, dstatus)} :
            /\ Commit(r.cache)
            /\ last' = [NoCall EXCEPT !.op = "storage_check_logical_unit", !.dev = p,
                                      !.unit = log_unit, !.ret = r.ret, !.scan = r.scan,
                                      !.valid = r.valid, !.called = r.called,
                                      !.cdev = r.cdev, !.cunit = r.cunit,
                                      !.cret = r.cret,
                                      !.pinned = last.pinned]
            /\ lazy_done' = (lazy_done \/ r.scan)
            /\ succeeded' = (succeeded \/ (r.scan /\ r.valid))
            /\ UNCHANGED scanned
            /\ UNCHANGED <<fill, lookup>>

\* The handles a caller may pass to storage_erase_blocks.
EraseHandles == {NoPathHandle, PciHandle(<<0, 1>>, {STORAGE_EMMC})}

\* The erase requests of the callers (handle, block I/O interface, range): two
\* requests that differ in every argument.
EraseCalls ==
    {call \in [handle : EraseHandles, bio : BlockIos, range : EraseRanges] :
        /\ (call.handle = NoPathHandle) = (call.bio = "bio0")
        /\ (call.bio = "bio0") = (call.range = <<0, 7>>)}

EraseBlocks ==
    \E call \in EraseCalls, loc \in LazyLocate, dstatus \in DescriptorStatus :
        \E r \in {storage_erase_blocks(CurrentCache, call.handle, call.bio,
                                       call.range[1], call.range[2], loc, dstatus)} :
            /\ Commit(r.cache)
            /\ last' = [NoCall EXCEPT !.op = "storage_erase_blocks", !.dev = call.handle,
                                      !.bio = call.bio, !.range = call.range,
                                      !.ret = r.ret, !.scan = r.scan, !.valid = r.valid,
                                      !.called = r.called, !.cdev = r.chandle,
                                      !.cbio = r.cbio, !.crange = r.crange,
                                      !.cret = r.cret,
                                      !.pinned = last.pinned]
            /\ lazy_done' = (lazy_done \/ r.scan)
            /\ succeeded' = (succeeded \/ (r.scan /\ r.valid))
            /\ UNCHANGED scanned
            /\ UNCHANGED <<fill, lookup>>

Next ==
    \/ IdentifyBootDevice
    \/ SetBootDevice
    \/ GetBootDevice
    \/ CheckLogicalUnit
    \/ EraseBlocks

Spec == Init /\ [][Next]_vars

\* Only the operations that read the cache, from the initial state.
ReadersNext ==
    \/ GetBootDevice
    \/ CheckLogicalUnit
    \/ EraseBlocks

ReadersSpec == Init /\ [][ReadersNext]_vars

\* One identify_boot_device(STORAGE_ALL) from the initial state, over every handle
\* buffer of up to MaxHandles + 1 handles; the buffer is kept in scanned.
ScanFromInit ==
    /\ last.op = "none"
    /\ \E hs \in SeqsUpTo(StudyHandles, MaxHandles + 1) :
        \E r \in {identify_boot_device(STORAGE_ALL, CurrentCache, LocateOk(hs))} :
            /\ Commit(r.cache)
            /\ last' = [NoCall EXCEPT !.op = "identify_boot_device", !.ret = r.ret,
                                      !.scan = TRUE, !.log = r.log,
                                      !.chain = ~EFI_ERROR(r.ret)]
            /\ scanned' = hs
            /\ succeeded' = ~EFI_ERROR(r.ret)
            /\ UNCHANGED lazy_done
            /\ UNCHANGED <<fill, lookup>>

ScanSpec == Init /\ [][ScanFromInit]_vars

\* The pattern-fill writer: one call of fill_with or fill_zero from the initial
\* state, over every start, end and pattern_blocks of the width.
FillWith ==
    /\ fill.pc = "idle"
    /\ \E start \in Lbas, end \in Lbas, pattern_blocks \in Lbas :
        fill' = fill_with_return(fill_with([fill EXCEPT !.fn = "fill_with"],
                                           start, end, pattern_blocks))
    /\ UNCHANGED <<cur_storage, boot_device, boot_device_type, initialized,
                   last, scanned, lazy_done, succeeded, lookup>>

FillZero ==
    /\ fill.pc = "idle"
    /\ \E start \in Lbas, end \in Lbas, astatus \in AllocStatus :
        fill' = fill_with_return(fill_zero([fill EXCEPT !.fn = "fill_zero"],
                                           start, end, astatus))
    /\ UNCHANGED <<cur_storage, boot_device, boot_device_type, initialized,
                   last, scanned, lazy_done, succeeded, lookup>>

\* One turn of the loop of fill_with: the test, and the WriteBlocks call with
\* the status it returns.
FillWrite ==
    /\ fill.pc = "fill_with"
    /\ \E wstatus \in WriteStatus :
        fill' = fill_with_return(fill_with_iteration(fill, wstatus))
    /\ UNCHANGED <<cur_storage, boot_device, boot_device_type, initialized,
                   last, scanned, lazy_done, succeeded, lookup>>

FillNext ==
    \/ FillWith
    \/ FillZero
    \/ FillWrite

FillSpec == Init /\ [][FillNext]_vars

\* Every WriteBlocks call returns, and the loop goes on when it does.
FillFairSpec == FillSpec /\ WF_vars(FillWrite)

\* One identify_storage call over every device path (the set of types whose
\* probe accepts it), every filter and every value of the two outputs before the
\* call.
IdentifyStorage ==
    /\ ~lookup.done
    /\ \E probes \in SUBSET StorageTypes, filter \in Filters,
          storage \in {NULL} \cup {supported_storage[t + 1] : t \in StorageTypes},
          type \in StorageTypes :
        \E r \in {identify_storage(PciHandle(<<0, 1>>, probes), filter, storage, type)} :
            lookup' = [done |-> TRUE, probes |-> probes, filter |-> filter,
                       storage_in |-> storage, type_in |-> type,
                       ret |-> r.ret, storage |-> r.storage, type |-> r.type]
    /\ UNCHANGED <<cur_storage, boot_device, boot_device_type, initialized,
                   last, scanned, lazy_done, succeeded, fill>>

LookupSpec == Init /\ [][IdentifyStorage]_vars

\* Scans that follow one another and storage_set_boot_device calls: every
\* identify_boot_device call is given a handle buffer of up to MaxHandles handles,
\* kept in scanned, and any filter.
Rescan ==
    \E filter \in CallFilters, hs \in SeqsUpTo(Handles, MaxHandles) :
        \E r \in {identify_boot_device(filter, CurrentCache, LocateOk(hs))} :
            /\ Commit(r.cache)
            /\ last' = [NoCall EXCEPT !.op = "identify_boot_device", !.filter = filter,
                                      !.ret = r.ret, !.scan = TRUE, !.log = r.log,
                                      !.chain = ~EFI_ERROR(r.ret)]
            /\ scanned' = hs
            /\ succeeded' = (succeeded \/ ~EFI_ERROR(r.ret))
            /\ UNCHANGED lazy_done
            /\ UNCHANGED <<fill, lookup>>

RescanNext ==
    \/ Rescan
    \/ SetBootDevice

RescanSpec == Init /\ [][RescanNext]_vars

\* A platform whose set of block devices does not change: every enumeration
\* succeeds and returns the handle buffer kept in scanned from the start.
PlatformInit ==
    /\ cur_storage = InitialCache.cur_storage
    /\ boot_device = InitialCache.boot_device
    /\ boot_device_type = InitialCache.boot_device_type
    /\ initialized = InitialCache.initialized
    /\ last = NoCall
    /\ scanned \in SeqsUpTo(Handles, MaxHandles)
    /\ lazy_done = FALSE
    /\ succeeded = FALSE
    /\ fill = NoFill
    /\ lookup = NoLookup

PlatformGet ==
    \E r \in {get_boot_device(CurrentCache, LocateOk(scanned))} :
        /\ Commit(r.cache)
        /\ last' = [NoCall EXCEPT !.op = "get_boot_device", !.ret = r.ret,
                                  !.scan = r.scan, !.chain = last.chain,
                                  !.pinned = last.pinned]
        /\ lazy_done' = (lazy_done \/ r.scan)
        /\ succeeded' = (succeeded \/ (r.scan /\ r.cache.cur_storage # NULL))
        /\ UNCHANGED <<scanned, fill, lookup>>

PlatformCheck ==
    \E p \in DevicePaths, log_unit \in LogicalUnits, dstatus \in DescriptorStatus :
        \E r \in {storage_check_logical_unit(CurrentCache, p, log_unit,
                                             LocateOk(scanned), dstatus)} :
            /\ Commit(r.cache)
            /\ last' = [NoCall EXCEPT !.op = "storage_check_logical_unit", !.dev = p,
                                      !.unit = log_unit, !.ret = r.ret, !.scan = r.scan,
                                      !.valid = r.valid, !.called = r.called,
                                      !.cdev = r.cdev, !.cunit = r.cunit,
                                      !.cret = r.cret,
                                      !.pinned = last.pinned]
            /\ lazy_done' = (lazy_done \/ r.scan)
            /\ succeeded' = (succeeded \/ (r.scan /\ r.valid))
            /\ UNCHANGED <<scanned, fill, lookup>>

PlatformNext ==
    \/ PlatformGet
    \/ PlatformCheck

PlatformSpec == PlatformInit /\ [][PlatformNext]_vars

-----------------------------------------------------------------------------
(* Properties *)

\* A handle the scan can recognise: a PCI device whose path some descriptor accepts.
Recognisable(h) == h.path /\ h.pci /\ h.probes # {}

\* The technology a recognisable handle is recognised as under STORAGE_ALL: the
\* accepting type of the lowest ordinal.
TechOf(h) == CHOOSE t \in h.probes : \A u \in h.probes : t <= u

SameAddress(g, h) == g.Function = h.Function /\ g.Device = h.Device

\* Cache c holds handle h as the boot device, as technology t.
HoldsIn(c, h, t) ==
    /\ c.boot_device = PciNode(HARDWARE_DEVICE_PATH, h.Function, h.Device)
    /\ c.boot_device_type = t
    /\ c.cur_storage = supported_storage[t + 1]

Holds(h, t) == HoldsIn(CurrentCache, h, t)

\* The scan under study enumerated exactly two recognisable devices at distinct
\* addresses, of different technologies.
TwoTechnologies ==
    /\ last.op = "identify_boot_device"
    /\ Len(scanned) = 2
    /\ Recognisable(scanned[1]) /\ Recognisable(scanned[2])
    /\ ~SameAddress(scanned[1], scanned[2])
    /\ TechOf(scanned[1]) # TechOf(scanned[2])

\* C1: from the initial cache, identify_boot_device(STORAGE_ALL) over two devices at
\* distinct addresses, recognised as T1 and T2 with T1 < T2, succeeds and leaves the
\* T1 device's address, type T1 and T1's descriptor in the cache, in either
\* enumeration order.
C1_HigherPriorityWins ==
    TwoTechnologies =>
        LET first == IF TechOf(scanned[1]) < TechOf(scanned[2]) THEN scanned[1] ELSE scanned[2]
        IN  /\ last.ret = "EFI_SUCCESS"
            /\ Holds(first, TechOf(first))

\* The higher-priority device was enumerated second and replaced the first.
C1_Witness ==
    /\ TwoTechnologies
    /\ TechOf(scanned[2]) < TechOf(scanned[1])
    /\ Holds(scanned[2], TechOf(scanned[2]))

\* The scan under study enumerated a set of devices, each PCI device through one
\* handle.
OneHandlePerDevice ==
    \A i, j \in 1..Len(scanned) :
        (i # j /\ scanned[i].pci /\ scanned[j].pci) => ~SameAddress(scanned[i], scanned[j])

\* The scan under study enumerated a set of devices that holds two devices at
\* distinct addresses recognised as the same technology.
TwoOfOneTechnology ==
    /\ last.op = "identify_boot_device"
    /\ OneHandlePerDevice
    /\ \E i, j \in 1..Len(scanned) :
        /\ Recognisable(scanned[i]) /\ Recognisable(scanned[j])
        /\ ~SameAddress(scanned[i], scanned[j])
        /\ TechOf(scanned[i]) = TechOf(scanned[j])

\* C2: whenever the enumerated devices hold two devices at distinct addresses
\* recognised as the same technology, whatever else is enumerated and in whatever
\* order, identify_boot_device returns unsupported and the cache holds no address
\* and no descriptor.
C2_DuplicateTechnologyFails ==
    TwoOfOneTechnology =>
        /\ last.ret = "EFI_UNSUPPORTED"
        /\ boot_device.Type = 0
        /\ cur_storage = NULL

Readers == {"get_boot_device", "storage_check_logical_unit", "storage_erase_blocks"}

\* C3: after an identify_boot_device that returned success, every get_boot_device
\* that follows with no other operation in between runs no enumeration and returns
\* the address the scan selected; repeated calls keep returning it.
C3_GetAfterIdentifyReadsCache ==
    [][(last.chain /\ last'.op = "get_boot_device") =>
          /\ ~last'.scan
          /\ last'.ret = "&boot_device"
          /\ boot_device' = boot_device]_vars

\* C4: over any sequence of get_boot_device, check_logical_unit and erase_blocks from
\* the initial state the lazy scan runs at most once: the call that runs it leaves
\* initialized = TRUE, and no call runs it after a lazy scan has run.
C4_LazyScanAtMostOnce ==
    [][last'.scan => (~lazy_done /\ initialized')]_vars

\* C5: between operations the cached descriptor is set if and only if the cached
\* address is set.
C5_DescriptorIffAddress ==
    (cur_storage # NULL) <=> (boot_device.Type # 0)

\* C6: initialized never goes from TRUE back to FALSE, and a scan that fails on
\* ambiguity clears the address and the descriptor.
C6_InitializedMonotonic ==
    [][/\ initialized => initialized'
       /\ (last'.op = "identify_boot_device"
             /\ last'.log = "Multiple identifcal storage found") =>
            (boot_device'.Type = 0 /\ cur_storage' = NULL)]_vars

\* An explicit scan failed on ambiguity in an initialized cache.
C6_Witness ==
    /\ initialized
    /\ last.op = "identify_boot_device"
    /\ last.log = "Multiple identifcal storage found"
    /\ last.ret = "EFI_UNSUPPORTED"

\* C7: a failing storage_set_boot_device leaves address, type, descriptor and
\* initialized as they were; it returns unsupported for a handle without device
\* path or without PCI node, and the registry's failure for a PCI device no
\* descriptor accepts.
C7_FailedSetKeepsCache ==
    [][last'.op = "storage_set_boot_device" =>
          LET d == last'.dev
          IN  /\ ~d.path => last'.ret = "EFI_UNSUPPORTED"
              /\ (d.path /\ ~d.pci) => last'.ret = "EFI_UNSUPPORTED"
              /\ (d.path /\ d.pci /\ d.probes = {}) =>
                     /\ EFI_ERROR(last'.ret)
                     /\ last'.ret = identify_storage(d, STORAGE_ALL, NULL, STORAGE_EMMC).ret
              /\ EFI_ERROR(last'.ret) => CurrentCache' = CurrentCache]_vars

\* The registry rejected a PCI device while the cache held a boot device.
C7_Witness ==
    /\ last.op = "storage_set_boot_device"
    /\ EFI_ERROR(last.ret)
    /\ last.dev.pci
    /\ cur_storage # NULL
    /\ boot_device.Type # 0

\* C8: storage_set_boot_device on a PCI device the registry recognises succeeds from
\* any cache and leaves the device's address with the type and descriptor of its
\* first registry match and initialized = TRUE; the get_boot_device calls that
\* follow return that address without a scan, and check_logical_unit and
\* erase_blocks find the cache valid.
C8_SetPinsBootDevice ==
    [][/\ (last'.op = "storage_set_boot_device" /\ Recognisable(last'.dev)) =>
            /\ last'.ret = "EFI_SUCCESS"
            /\ HoldsIn(CurrentCache', last'.dev, TechOf(last'.dev))
            /\ initialized'
       /\ (last.pinned /\ last'.op \in Readers) =>
            /\ ~last'.scan
            /\ CurrentCache' = CurrentCache
            /\ last'.op = "get_boot_device" => last'.ret = "&boot_device"
            /\ last'.op # "get_boot_device" => last'.valid]_vars

\* erase_blocks invoked the descriptor of the device storage_set_boot_device pinned.
C8_Witness ==
    /\ last.pinned
    /\ last.op = "storage_erase_blocks"
    /\ last.called # NULL
    /\ boot_device_type = STORAGE_UFS

\* C9 as claimed: where no identify_boot_device and no storage_set_boot_device has
\* succeeded before, check_logical_unit returns unsupported for every path and
\* invokes no descriptor.
C9_CheckBeforeIdentification ==
    [][(~succeeded /\ last'.op = "storage_check_logical_unit") =>
          (last'.ret = "EFI_UNSUPPORTED" /\ last'.called = NULL)]_vars

\* C9 as amended: where no identify_boot_device and no storage_set_boot_device has
\* succeeded before, check_logical_unit returns unsupported for every path and
\* invokes no descriptor, unless the lazy scan this call runs itself succeeds.
C9_CheckWithoutIdentification ==
    [][(~succeeded /\ last'.op = "storage_check_logical_unit"
          /\ ~(last'.scan /\ last'.valid)) =>
          (last'.ret = "EFI_UNSUPPORTED" /\ last'.called = NULL)]_vars

\* check_logical_unit found an initialized cache in which nothing had ever been
\* identified, after a scan that accepted a device and then failed.
C9_Witness ==
    /\ last.op = "storage_check_logical_unit"
    /\ ~succeeded
    /\ ~last.scan
    /\ boot_device.Function # InitialCache.boot_device.Function
    /\ last.ret = "EFI_UNSUPPORTED"

\* C10: check_logical_unit(path, unit) invokes the cached descriptor's
\* check_logical_unit(path, unit) and returns its status when the cache it finds is
\* valid (initialized, address set, descriptor set) and the path's address equals
\* the cached address in Function and Device; otherwise it invokes no descriptor
\* and returns unsupported.
C10_CheckLogicalUnitDelegates ==
    last.op = "storage_check_logical_unit" =>
        LET p == last.dev
            valid == initialized /\ boot_device.Type # 0 /\ cur_storage # NULL
            same == /\ p.pci
                    /\ p.Function = boot_device.Function
                    /\ p.Device = boot_device.Device
        IN  IF valid /\ same
            THEN /\ last.called = cur_storage
                 /\ last.cdev = p
                 /\ last.cunit = last.unit
                 /\ last.ret = last.cret
            ELSE /\ last.called = NULL
                 /\ last.ret = "EFI_UNSUPPORTED"

\* The descriptor was invoked and its failure was returned.
C10_Witness ==
    /\ last.op = "storage_check_logical_unit"
    /\ last.called = "ufs"
    /\ last.unit = "LOGICAL_UNIT_FACTORY"
    /\ last.ret = "EFI_DEVICE_ERROR"

-----------------------------------------------------------------------------
(* The pattern-fill writer *)

\* fill_with has been entered: called directly, or by fill_zero after its
\* allocation.
FillWithCalled == fill.pc # "idle" /\ (fill.fn = "fill_with" \/ fill.allocated > 0)

\* The chunks of [start, end] in pieces of p blocks, in unbounded arithmetic:
\* the k-th (from 0) starts at start + k*p and holds min(p, end - lba + 1) blocks.
ChunkAt(start, end, p, k) ==
    LET lba == start + k * p
    IN  [lba |-> lba, size |-> IF p < end - lba + 1 THEN p ELSE end - lba + 1]

ChunkCount(start, end, p) == (end - start + p) \div p

Chunks(start, end, p) ==
    [k \in 1 .. ChunkCount(start, end, p) |-> ChunkAt(start, end, p, k - 1)]

\* C11: for every start and end with end <= start, the single-block range
\* end = start included, and every pattern_blocks, fill_with returns
\* EFI_INVALID_PARAMETER and issues no block write.
C11_EmptyRangeRejected ==
    (FillWithCalled /\ fill.end <= fill.start)
        => /\ fill.pc = "done"
           /\ fill.with_ret = "EFI_INVALID_PARAMETER"
           /\ fill.writes = <<>>
           /\ ~fill.dropped

C11_Witness ==
    /\ fill.fn = "fill_with"
    /\ fill.pc = "done"
    /\ fill.end = fill.start
    /\ fill.pattern_blocks > 0
    /\ fill.ret = "EFI_INVALID_PARAMETER"

\* C12: for every end > start and pattern_blocks p >= 1, when every write
\* succeeds fill_with issues exactly the ceil((end - start + 1) / p) chunks of the
\* range, the k-th at start + k*p with min(p, end - lba + 1) blocks, and returns
\* success: the writes are disjoint, cover [start, end] and nothing beyond end.
C12_WritesPartitionRange ==
    (/\ fill.fn = "fill_with"
     /\ fill.pc = "done"
     /\ fill.end > fill.start
     /\ fill.pattern_blocks >= 1
     /\ fill.with_ret = "EFI_SUCCESS")
        => /\ ~fill.dropped
           /\ fill.writes = Chunks(fill.start, fill.end, fill.pattern_blocks)

\* C13: when the k-th write of fill_with fails, fill_with returns the status of
\* that write, the failing write is the last one issued, and the k - 1 writes
\* before it are the first k - 1 chunks of the range, at ascending LBAs.
C13_WriteFailureAborts ==
    (/\ FillWithCalled
     /\ fill.pc = "done"
     /\ fill.with_ret \notin {"EFI_SUCCESS", "EFI_INVALID_PARAMETER"})
        => /\ fill.with_ret = "EFI_DEVICE_ERROR"
           /\ ~fill.dropped
           /\ \A k \in 1 .. Len(fill.writes) - 1 :
                /\ fill.writes[k] = ChunkAt(fill.start, fill.end, fill.pattern_blocks, k - 1)
                /\ fill.writes[k].lba < fill.writes[k + 1].lba

\* C14: fill_zero leaves the pattern buffer balanced.  When the allocation fails
\* it returns the allocation error, holds nothing and has written nothing; when
\* the allocation succeeds the buffer is held while fill_with runs, is freed
\* exactly once when fill_zero returns, and fill_zero returns the status of
\* fill_with.
C14_PatternBufferBalanced ==
    (fill.fn = "fill_zero" /\ fill.pc # "idle")
        => /\ fill.pc # "done" => (fill.allocated = 1 /\ fill.freed = 0)
           /\ (fill.pc = "done" /\ fill.allocated = 0)
                => /\ fill.freed = 0
                   /\ fill.ret = "EFI_OUT_OF_RESOURCES"
                   /\ fill.writes = <<>>
                   /\ ~fill.dropped
           /\ (fill.pc = "done" /\ fill.allocated # 0)
                => /\ fill.allocated = 1
                   /\ fill.freed = 1
                   /\ fill.ret = fill.with_ret
                   /\ fill.with_ret \in {"EFI_SUCCESS", "EFI_INVALID_PARAMETER",
                                         "EFI_DEVICE_ERROR"}

C14_Witness ==
    /\ fill.fn = "fill_zero"
    /\ fill.pc = "done"
    /\ fill.freed = 1
    /\ fill.ret = "EFI_DEVICE_ERROR"
    /\ Len(fill.writes) = 2

\* C20: fill_with terminates: for every end > start and every pattern_blocks,
\* 0 included, with the LBA arithmetic modulo 2^LbaBits, a call whose writes all
\* return leaves the loop and returns.
C20_FillWithTerminates == (fill.pc = "fill_with") ~> (fill.pc = "done")

-----------------------------------------------------------------------------
(* storage_erase_blocks *)

\* C15: erase_blocks(handle, bio, start, end) returns unsupported and invokes no
\* descriptor when the cache is not valid; when the cache is valid it invokes the
\* erase_blocks of the cached descriptor, once, with the same handle, bio, start
\* and end, and returns the status of that call.  It issues no block write of the
\* pattern-fill writer.
C15_EraseBlocksDelegates ==
    last.op = "storage_erase_blocks" =>
        LET valid == initialized /\ boot_device.Type # 0 /\ cur_storage # NULL
        IN  /\ last.valid = valid
            /\ IF valid
               THEN /\ last.called = cur_storage
                    /\ last.cdev = last.dev
                    /\ last.cbio = last.bio
                    /\ last.crange = last.range
                    /\ last.ret = last.cret
               ELSE /\ last.called = NULL
                    /\ last.ret = "EFI_UNSUPPORTED"
            /\ fill.writes = <<>>
            /\ ~fill.dropped

\* The descriptor erased blocks 8..8 of the second request and failed.
C15_Witness ==
    /\ last.op = "storage_erase_blocks"
    /\ last.called = "emmc"
    /\ last.crange = <<8, 8>>
    /\ last.cbio = "bio1"
    /\ last.ret = "EFI_DEVICE_ERROR"

-----------------------------------------------------------------------------
(* identify_storage *)

\* The types a lookup may answer: allowed by the filter, with a descriptor in
\* supported_storage, and whose probe accepts the path.
Matching(probes, filter) ==
    {t \in StorageTypes : /\ (filter = t \/ filter = STORAGE_ALL)
                          /\ supported_storage[t + 1] # NULL
                          /\ t \in probes}

\* C16: for every device path and filter, identify_storage returns the descriptor
\* of the lowest type that the filter allows, that has a descriptor and whose
\* probe accepts the path, and reports that type; when there is none it returns
\* EFI_UNSUPPORTED and leaves both outputs as they were.  With a filter other
\* than STORAGE_ALL the type returned is the filter.
C16_LookupLowestMatch ==
    lookup.done =>
        LET M == Matching(lookup.probes, lookup.filter)
        IN  IF M = {}
            THEN /\ lookup.ret = "EFI_UNSUPPORTED"
                 /\ lookup.storage = lookup.storage_in
                 /\ lookup.type = lookup.type_in
            ELSE /\ lookup.ret = "EFI_SUCCESS"
                 /\ lookup.type \in M
                 /\ \A t \in M : lookup.type <= t
                 /\ lookup.storage = supported_storage[lookup.type + 1]
                 /\ lookup.filter # STORAGE_ALL => lookup.type = lookup.filter

\* A path that UFS and SATA accept, looked up with the SATA filter.
C16_Witness ==
    /\ lookup.done
    /\ lookup.probes = {STORAGE_UFS, STORAGE_SATA}
    /\ lookup.filter = STORAGE_SATA
    /\ lookup.storage_in = "emmc"
    /\ lookup.storage = "sata"
    /\ lookup.type = STORAGE_SATA

-----------------------------------------------------------------------------
(* identify_boot_device over chosen handle buffers *)

\* What a scan leaves for its callers: the status, the cached address when one
\* is set, the cached type and descriptor when a descriptor is set.
Outcome(ret, c) ==
    [ret |-> ret,
     address |-> IF c.boot_device.Type # 0
                 THEN <<c.boot_device.Function, c.boot_device.Device>>
                 ELSE <<>>,
     type |-> IF c.cur_storage # NULL THEN c.boot_device_type ELSE STORAGE_ALL,
     storage |-> c.cur_storage]

\* The outcome of identify_boot_device(filter) over the handle buffer hs when the
\* cache is the initial one.
FreshOutcome(filter, hs) ==
    LET r == identify_boot_device(filter, InitialCache, LocateOk(hs))
    IN  Outcome(r.ret, r.cache)

\* C17: a scan supersedes the state before it: for a handle buffer and a filter,
\* the status of identify_boot_device and the cached address, type and descriptor
\* it leaves are those of the same scan from the initial cache, whatever earlier
\* scans and storage_set_boot_device calls left in the cache.
C17_FreshScanSupersedes ==
    last.op = "identify_boot_device" =>
        Outcome(last.ret, CurrentCache) = FreshOutcome(last.filter, scanned)

\* The orders in which a handle buffer may be enumerated.
Reorderings(hs) ==
    LET n == Len(hs)
    IN  {[i \in 1 .. n |-> hs[f[i]]] :
            f \in {g \in [1 .. n -> 1 .. n] : \A i, j \in 1 .. n : g[i] = g[j] => i = j}}

\* The scan under study enumerated three or more PCI devices at pairwise distinct
\* addresses.
ThreeDevices ==
    /\ last.op = "identify_boot_device"
    /\ Len(scanned) >= 3
    /\ \A i \in 1 .. Len(scanned) : scanned[i].pci
    /\ OneHandlePerDevice

\* C18: from the initial cache, over three or more devices at pairwise distinct
\* addresses, identify_boot_device(STORAGE_ALL) returns the same status and leaves
\* the same cached address, type and descriptor for every order of enumeration.
C18_EnumerationOrderIrrelevant ==
    ThreeDevices =>
        \A hs \in Reorderings(scanned) :
            FreshOutcome(STORAGE_ALL, hs) = Outcome(last.ret, CurrentCache)

-----------------------------------------------------------------------------
(* Reads of the cache on an unchanging platform *)

\* C19: when get_boot_device has returned the cached address and the devices of
\* the platform do not change, a check_logical_unit that follows at once on a path
\* at that address invokes the cached descriptor, and a get_boot_device that
\* follows at once returns the same address.
C19_ReadsAgree ==
    [][(last.op = "get_boot_device" /\ last.ret = "&boot_device")
        => /\ (/\ last'.op = "storage_check_logical_unit"
               /\ last'.dev.pci
               /\ last'.dev.Function = boot_device.Function
               /\ last'.dev.Device = boot_device.Device)
                => (last'.called # NULL /\ last'.called = cur_storage)
           /\ last'.op = "get_boot_device"
                => (last'.ret = "&boot_device" /\ boot_device' = boot_device)]_vars

====
